---- MODULE Spec2Model ----
(***************************************************************************)
(* A state-machine model of the security service of aether-x-ultimate     *)
(* (src/services/security/app.py): credential store, token service,       *)
(* access gate, encryption envelope, protocol registry and audit log.      *)
(*                                                                         *)
(* The service is a Flask application served with one thread per request.  *)
(* Every request is handled by a thread of Threads; a handler is cut into  *)
(* steps at its accesses to the shared module-level state (users_db,       *)
(* security_logs, custom_protocols), so that every interleaving of the     *)
(* handlers' accesses is a behaviour of the model.  A finished request     *)
(* stays at pc = "respond" with its response until Return hands it to the  *)
(* client and frees the thread.                                            *)
(*                                                                         *)
(* Text the code transforms character by character (usernames, protocol    *)
(* names, protocol ids) is a sequence of one-character strings; the other  *)
(* text values are opaque strings.  Time is an integer number of hours.    *)
(***************************************************************************)
EXTENDS Integers, Sequences, FiniteSets, TLC

(***************************************************************************)
(* Bounds of the model.                                                    *)
(***************************************************************************)
NumThreads == 2
MaxLog == 3
MaxGateEvents == 2
MaxLogProto == 8

Threads == 1..NumThreads

\* The request threads of the gateway
NumGatewayThreads == 2
GThreads == 1..NumGatewayThreads

\* The request threads of the data-processing service
NumDataThreads == 2
DThreads == 1..NumDataThreads

\* The processor threads that /stream/process can start while the model explores
MaxWorkers == 2
Workers == 1..MaxWorkers

(***************************************************************************)
(* Input alphabets.                                                        *)
(***************************************************************************)
UserA == <<"a">>
UserAB == <<"a", "_", "b">>
Usernames == {UserA, UserAB}
EmptyText == <<>>
Passwords == {"pw1", "pw2"}
Emails == {"a@x.com"}
Salts == {"salt1"}
\* Instants of the clock, in hours: the start, and the hours around the
\* expiry of a token issued at hour 0 or 1.
TOKEN_TTL == 24
Instants == {0, 1, TOKEN_TTL - 1, TOKEN_TTL, TOKEN_TTL + 1}

\* Python's None where the code compares it with a user id.
NoneId == <<"None">>
ClientAddr == "127.0.0.1"

VARIABLES
    users_db,          \* dict username -> user record
    security_logs,     \* list of audit events
    custom_protocols,  \* dict protocol_id -> protocol, in insertion order
    now,               \* datetime.utcnow(), in hours
    issued,            \* the tokens /login has returned to clients
    pc,                \* per thread: the handler step it is at
    req,               \* per thread: the request it handles
    loc,               \* per thread: the handler's local variables
    resp,              \* per thread: the response it produced
    rate_limits,       \* gateway: dict client_ip -> list of request times
    gtime,             \* gateway: time.time(), in seconds
    gpc,               \* per gateway thread: the step it is at
    greq,              \* per gateway thread: the request it handles
    gloc,              \* per gateway thread: the locals of rate_limit and the handler
    admitted,          \* gateway: the handler invocations, in order
    data_queue,        \* data-processing: queue.Queue of ingested messages
    processed_data,    \* data-processing: list of processed messages
    stream_processors, \* data-processing: dict processor_id -> processor record
    dclock,            \* data-processing: time.time(), in milliseconds
    ingested,          \* data-processing: the number of messages put on the queue
    hpc,               \* per data-processing request thread: the step it is at
    hreq,              \* per data-processing request thread: the request it handles
    hresp,             \* per data-processing request thread: the response it produced
    wpc,               \* per processor thread: the step of process_stream it is at
    wloc               \* per processor thread: the locals of process_stream

\* The state of the API gateway (src/services/api-gateway/app.py), a process of
\* its own, which the handlers of the security service never touch.
gateway_vars == <<rate_limits, gtime, gpc, greq, gloc, admitted>>

\* The state of the data-processing service (src/services/data-processing/app.py),
\* a process of its own.
data_vars == <<data_queue, processed_data, stream_processors, dclock, ingested,
               hpc, hreq, hresp, wpc, wloc>>

vars == <<users_db, security_logs, custom_protocols, now, issued, pc, req, loc, resp,
          rate_limits, gtime, gpc, greq, gloc, admitted,
          data_queue, processed_data, stream_processors, dclock, ingested,
          hpc, hreq, hresp, wpc, wloc>>

NoReq == [op |-> "none"]
NoLoc == [none |-> TRUE]
NoResp == [status |-> 0]

(***************************************************************************)
(* bcrypt, as a salted one-way hash: the hash carries its salt, and a      *)
(* password checks against a hash iff hashing it with the hash's salt      *)
(* gives that hash.                                                        *)
(***************************************************************************)
hashpw(password, salt) == [salt |-> salt, digest |-> <<"bcrypt", salt, password>>]

checkpw(password, hashed) == hashpw(password, hashed.salt) = hashed

(***************************************************************************)
(* The audit log.                                                          *)
(***************************************************************************)
NoDetails == [empty |-> TRUE]

SecurityEvent(event_type, user_id, details) ==
    [timestamp |-> now, event_type |-> event_type, user_id |-> user_id,
     details |-> details, source_ip |-> ClientAddr]

\* A log that keeps its two most recent events only.
log_security_event_rotating(event_type, user_id, details) ==
    security_logs' =
        Append(IF Len(security_logs) >= 2 THEN Tail(security_logs) ELSE security_logs,
               SecurityEvent(event_type, user_id, details))

\* Lines 40-50
log_security_event(event_type, user_id, details) ==
    security_logs' = Append(security_logs, SecurityEvent(event_type, user_id, details))

(***************************************************************************)
(* Credential check.  The result is <<user>> or <<>> for None.             *)
(***************************************************************************)
authenticate_user_any_password(username, password) ==
    IF username \in DOMAIN users_db THEN <<users_db[username]>> ELSE <<>>

\* A credential check that answers a wrong password with the record, marked
\* inactive.
authenticate_user_disabled_on_mismatch(username, password) ==
    IF username \notin DOMAIN users_db THEN <<>>
    ELSE IF checkpw(password, users_db[username].password_hash) THEN <<users_db[username]>>
    ELSE <<[users_db[username] EXCEPT !.is_active = FALSE]>>

\* Lines 52-57
authenticate_user(username, password) ==
    IF username \in DOMAIN users_db /\ checkpw(password, users_db[username].password_hash)
    THEN <<users_db[username]>>
    ELSE <<>>

(***************************************************************************)
(* Tokens.  A token is its claims and its signature; only the service,     *)
(* which holds JWT_SECRET, makes a signature that validates.               *)
(***************************************************************************)
generate_jwt_token_late_expiry(user_id) ==
    [user_id |-> user_id, exp |-> now + TOKEN_TTL + 1, iat |-> now, sig |-> "JWT_SECRET"]

\* Lines 59-66
generate_jwt_token(user_id) ==
    [user_id |-> user_id, exp |-> now + TOKEN_TTL, iat |-> now, sig |-> "JWT_SECRET"]

\* jwt.decode(token, JWT_SECRET, algorithms=['HS256']): the signature is validated
\* first, then the exp claim against the clock (PyJWT 2: expired once exp <= now).
jwt_decode(token) ==
    IF token.sig # "JWT_SECRET" THEN [error |-> "InvalidTokenError"]
    ELSE IF token.exp <= now THEN [error |-> "ExpiredSignatureError"]
    ELSE [error |-> "none", payload |-> [user_id |-> token.user_id,
                                         exp |-> token.exp, iat |-> token.iat]]

\* A verification that also asks for the user's most recent token.
verify_jwt_token_latest_only(token) ==
    IF /\ jwt_decode(token).error = "none"
       /\ \A k \in issued : k.user_id = token.user_id => k.iat <= token.iat
    THEN jwt_decode(token).payload.user_id
    ELSE NoneId

\* A verification that reads the claims without validating the signature.
verify_jwt_token_unsigned(token) ==
    IF token.exp > now THEN token.user_id ELSE NoneId

\* Lines 68-76: both exceptions give None.
verify_jwt_token(token) ==
    IF jwt_decode(token).error = "none"
    THEN jwt_decode(token).payload.user_id
    ELSE NoneId

(***************************************************************************)
(* Responses.                                                              *)
(***************************************************************************)
Respond(t, status, body) ==
    /\ pc' = [pc EXCEPT ![t] = "respond"]
    /\ resp' = [resp EXCEPT ![t] = [status |-> status, body |-> body]]

ErrorBody(message) == [error |-> message]

\* The response leaves the service; the thread is free for the next request.
Return(t) ==
    /\ pc[t] = "respond"
    /\ pc' = [pc EXCEPT ![t] = "idle"]
    /\ req' = [req EXCEPT ![t] = NoReq]
    /\ loc' = [loc EXCEPT ![t] = NoLoc]
    /\ resp' = [resp EXCEPT ![t] = NoResp]
    /\ UNCHANGED <<users_db, security_logs, custom_protocols, now, issued>>
    /\ UNCHANGED gateway_vars
    /\ UNCHANGED data_vars

\* The clock advances to a later instant.
Tick(i) ==
    /\ i > now
    /\ now' = i
    /\ UNCHANGED <<users_db, security_logs, custom_protocols, issued, pc, req, loc, resp>>
    /\ UNCHANGED gateway_vars
    /\ UNCHANGED data_vars

(***************************************************************************)
(* POST /register                                                          *)
(***************************************************************************)
UsernameTakenNever(username) == FALSE

\* Line 114: username in users_db
UsernameTaken(username) == username \in DOMAIN users_db

\* A record that starts out disabled.
UserRecordInactive(username, password, email, salt) ==
    [username |-> username, password_hash |-> hashpw(password, salt), email |-> email,
     created_at |-> now, is_active |-> FALSE]

\* Lines 118-126: the hash and the record
UserRecord(username, password, email, salt) ==
    [username |-> username, password_hash |-> hashpw(password, salt), email |-> email,
     created_at |-> now, is_active |-> TRUE]

\* Lines 106-126: validation, the membership test, the hash, the record.
RegisterStart(t, username, password, email, salt) ==
    /\ pc[t] = "idle"
    /\ req' = [req EXCEPT ![t] = [op |-> "register", username |-> username,
                                  password |-> password, email |-> email]]
    /\ IF username = EmptyText \/ password = "" \/ email = ""
       THEN /\ Respond(t, 400, ErrorBody("Username, password, and email are required"))
            /\ UNCHANGED loc
       ELSE IF UsernameTaken(username)
       THEN /\ Respond(t, 409, ErrorBody("Username already exists"))
            /\ UNCHANGED loc
       ELSE /\ pc' = [pc EXCEPT ![t] = "reg_insert"]
            /\ loc' = [loc EXCEPT ![t] = [user |-> UserRecord(username, password, email, salt)]]
            /\ UNCHANGED resp
    /\ UNCHANGED <<users_db, security_logs, custom_protocols, now, issued>>
    /\ UNCHANGED gateway_vars
    /\ UNCHANGED data_vars

\* An insertion that writes back a dict holding the new record alone.
RegisterInsertReplacing(t) ==
    /\ pc[t] = "reg_insert"
    /\ users_db' = [k \in {req[t].username} |-> loc[t].user]
    /\ pc' = [pc EXCEPT ![t] = "reg_log"]
    /\ UNCHANGED <<security_logs, custom_protocols, now, issued, req, loc, resp>>
    /\ UNCHANGED gateway_vars
    /\ UNCHANGED data_vars

\* Line 128: users_db[username] = user
RegisterInsert(t) ==
    /\ pc[t] = "reg_insert"
    /\ users_db' = [k \in DOMAIN users_db \cup {req[t].username} |->
                       IF k = req[t].username THEN loc[t].user ELSE users_db[k]]
    /\ pc' = [pc EXCEPT ![t] = "reg_log"]
    /\ UNCHANGED <<security_logs, custom_protocols, now, issued, req, loc, resp>>
    /\ UNCHANGED gateway_vars
    /\ UNCHANGED data_vars

\* Lines 130-136: the audit event and the response.
RegisterLog(t) ==
    /\ pc[t] = "reg_log"
    /\ log_security_event("login_success", req[t].username, [action |-> "registration"])
    /\ Respond(t, 200, [message |-> "User registered successfully",
                        username |-> req[t].username, status |-> "success"])
    /\ UNCHANGED <<users_db, custom_protocols, now, issued, req, loc>>
    /\ UNCHANGED gateway_vars
    /\ UNCHANGED data_vars

(***************************************************************************)
(* POST /login                                                             *)
(***************************************************************************)
\* A login that records no attempt.
LoginStartNoAttempt(t, username, password) ==
    /\ pc[t] = "idle"
    /\ req' = [req EXCEPT ![t] = [op |-> "login", username |-> username,
                                  password |-> password]]
    /\ IF username = EmptyText \/ password = ""
       THEN Respond(t, 400, ErrorBody("Username and password are required"))
       ELSE pc' = [pc EXCEPT ![t] = "login_auth"] /\ UNCHANGED resp
    /\ UNCHANGED <<users_db, security_logs, custom_protocols, now, issued, loc>>
    /\ UNCHANGED gateway_vars
    /\ UNCHANGED data_vars

\* A login that records the attempt before it validates its input.
LoginStartLogsFirst(t, username, password) ==
    /\ pc[t] = "idle"
    /\ req' = [req EXCEPT ![t] = [op |-> "login", username |-> username,
                                  password |-> password]]
    /\ log_security_event("login_attempt", username, NoDetails)
    /\ IF username = EmptyText \/ password = ""
       THEN Respond(t, 400, ErrorBody("Username and password are required"))
       ELSE pc' = [pc EXCEPT ![t] = "login_auth"] /\ UNCHANGED resp
    /\ UNCHANGED <<users_db, custom_protocols, now, issued, loc>>
    /\ UNCHANGED gateway_vars
    /\ UNCHANGED data_vars

\* Lines 145-152: validation and the login_attempt event.
LoginStart(t, username, password) ==
    /\ pc[t] = "idle"
    /\ req' = [req EXCEPT ![t] = [op |-> "login", username |-> username,
                                  password |-> password]]
    /\ IF username = EmptyText \/ password = ""
       THEN /\ Respond(t, 400, ErrorBody("Username and password are required"))
            /\ UNCHANGED security_logs
       ELSE /\ log_security_event("login_attempt", username, NoDetails)
            /\ pc' = [pc EXCEPT ![t] = "login_auth"]
            /\ UNCHANGED resp
    /\ UNCHANGED <<users_db, custom_protocols, now, issued, loc>>
    /\ UNCHANGED gateway_vars
    /\ UNCHANGED data_vars

\* Line 154: user = authenticate_user(username, password)
LoginAuth(t) ==
    /\ pc[t] = "login_auth"
    /\ loc' = [loc EXCEPT ![t] = [user |-> authenticate_user(req[t].username, req[t].password)]]
    /\ pc' = [pc EXCEPT ![t] = "login_outcome"]
    /\ UNCHANGED <<users_db, security_logs, custom_protocols, now, issued, req, resp>>
    /\ UNCHANGED gateway_vars
    /\ UNCHANGED data_vars

\* Lines 155-175: the outcome event, the token, the response.
LoginOutcome(t) ==
    /\ pc[t] = "login_outcome"
    /\ IF loc[t].user = <<>>
       THEN /\ log_security_event("login_failure", req[t].username,
                                  [reason |-> "invalid_credentials"])
            /\ Respond(t, 401, ErrorBody("Invalid credentials"))
            /\ UNCHANGED issued
       ELSE IF ~loc[t].user[1].is_active
       THEN /\ log_security_event("login_failure", req[t].username,
                                  [reason |-> "account_disabled"])
            /\ Respond(t, 403, ErrorBody("Account disabled"))
            /\ UNCHANGED issued
       ELSE /\ log_security_event("login_success", req[t].username, NoDetails)
            /\ Respond(t, 200, [message |-> "Login successful",
                                token |-> generate_jwt_token(req[t].username),
                                user |-> [username |-> req[t].username,
                                          email |-> loc[t].user[1].email],
                                status |-> "success"])
            /\ issued' = issued \cup {generate_jwt_token(req[t].username)}
    /\ UNCHANGED <<users_db, custom_protocols, now, req, loc>>
    /\ UNCHANGED gateway_vars
    /\ UNCHANGED data_vars

(***************************************************************************)
(* The access gate: require_auth, in front of every protected handler.     *)
(* A header is absent, or a scheme prefix ("Bearer " or nothing) and a     *)
(* token.                                                                  *)
(***************************************************************************)
NoHeader == [scheme |-> "absent"]

BearerHeader(token) == [scheme |-> "Bearer ", token |-> token]

BareHeader(token) == [scheme |-> "", token |-> token]

\* A header value with any other scheme in front of the token
OtherSchemeHeader(token) == [scheme |-> "Basic ", token |-> token]

\* What jwt.decode makes of text that is no JWT: nothing it can validate.
MalformedToken == [user_id |-> NoneId, exp |-> 0, iat |-> 0, sig |-> "malformed"]

\* Lines 87-88: a "Bearer " prefix is stripped; any other header value is taken
\* whole as the token, so that a scheme other than "Bearer " leaves text that is
\* no JWT.
HeaderToken(header) ==
    IF header.scheme \in {"Bearer ", ""} THEN header.token ELSE MalformedToken

GateOutcomeHeaderOnly(header) == IF header = NoHeader THEN "no_token" ELSE "pass"

\* Lines 82-93: "no_token", "invalid_token" or "pass"
GateOutcome(header) ==
    IF header = NoHeader THEN "no_token"
    ELSE IF verify_jwt_token(HeaderToken(header)) \in {NoneId, EmptyText} THEN "invalid_token"
    ELSE "pass"

\* Lines 82-95.  The request r carries its op, its header and its body.
ProtectedArrive(t, r) ==
    /\ pc[t] = "idle"
    /\ req' = [req EXCEPT ![t] = r]
    /\ IF GateOutcome(r.header) = "no_token"
       THEN /\ log_security_event("unauthorized_access", NoneId, [reason |-> "no_token"])
            /\ Respond(t, 401, ErrorBody("Authentication required"))
            /\ UNCHANGED loc
       ELSE IF GateOutcome(r.header) = "invalid_token"
       THEN /\ log_security_event("unauthorized_access", NoneId, [reason |-> "invalid_token"])
            /\ Respond(t, 401, ErrorBody("Invalid token"))
            /\ UNCHANGED loc
       ELSE /\ pc' = [pc EXCEPT ![t] = "body"]
            /\ loc' = [loc EXCEPT ![t] = [user_id |-> verify_jwt_token(HeaderToken(r.header))]]
            /\ UNCHANGED <<security_logs, resp>>
    /\ UNCHANGED <<users_db, custom_protocols, now, issued>>

\* A protected request sent to the service directly
ProtectedStart(t, r) ==
    ProtectedArrive(t, r) /\ UNCHANGED gateway_vars /\ UNCHANGED data_vars

(***************************************************************************)
(* GET /health                                                             *)
(***************************************************************************)
Health(t) ==
    /\ pc[t] = "idle"
    /\ req' = [req EXCEPT ![t] = [op |-> "health"]]
    /\ Respond(t, 200, [status |-> "healthy", service |-> "security"])
    /\ UNCHANGED <<users_db, security_logs, custom_protocols, now, issued, loc>>
    /\ UNCHANGED gateway_vars
    /\ UNCHANGED data_vars

(***************************************************************************)
(* The encryption envelope.  A Fernet token pairs the plaintext with the   *)
(* key it was made under and a fresh IV; decryption gives the plaintext    *)
(* back iff the token is intact and was made under the key.                *)
(***************************************************************************)
ENCRYPTION_KEY == "ENCRYPTION_KEY"

fernet_encrypt(plaintext, iv) ==
    [kind |-> "fernet", key |-> ENCRYPTION_KEY, iv |-> iv, data |-> plaintext]

\* A decryption that does not look at the key the token was made under.
fernet_decrypt_any_key(token) ==
    IF token.kind = "fernet" THEN <<token.data>> ELSE <<>>

\* <<plaintext>>, or <<>> for the InvalidToken exception
fernet_decrypt(token) ==
    IF token.kind = "fernet" /\ token.key = ENCRYPTION_KEY THEN <<token.data>> ELSE <<>>

NoData == [kind |-> "empty"]

\* POST /encrypt, lines 185-203
EncryptBody(t, iv) ==
    /\ pc[t] = "body" /\ req[t].op = "encrypt"
    /\ IF req[t].data = EmptyText
       THEN /\ Respond(t, 400, ErrorBody("Data to encrypt is required"))
            /\ UNCHANGED security_logs
       ELSE /\ log_security_event("encryption_operation", loc[t].user_id,
                                  [operation |-> "encrypt", data_length |-> Len(req[t].data)])
            /\ Respond(t, 200, [encrypted_data |-> fernet_encrypt(req[t].data, iv),
                                encryption_key |-> ENCRYPTION_KEY,
                                status |-> "success"])
    /\ UNCHANGED <<users_db, custom_protocols, now, issued, req, loc>>
    /\ UNCHANGED gateway_vars
    /\ UNCHANGED data_vars

\* POST /decrypt, lines 213-233.  fernet.decrypt raises InvalidToken, an exception
\* without a message, which line 233 answers with 500 and str(e), the empty text.
DecryptBody(t) ==
    /\ pc[t] = "body" /\ req[t].op = "decrypt"
    /\ IF req[t].data = NoData
       THEN /\ Respond(t, 400, ErrorBody("Encrypted data is required"))
            /\ UNCHANGED security_logs
       ELSE IF fernet_decrypt(req[t].data) = <<>>
       THEN /\ Respond(t, 500, ErrorBody(""))
            /\ UNCHANGED security_logs
       ELSE /\ log_security_event("encryption_operation", loc[t].user_id,
                                  [operation |-> "decrypt",
                                   data_length |-> Len(fernet_decrypt(req[t].data)[1])])
            /\ Respond(t, 200, [decrypted_data |-> fernet_decrypt(req[t].data)[1],
                                status |-> "success"])
    /\ UNCHANGED <<users_db, custom_protocols, now, issued, req, loc>>
    /\ UNCHANGED gateway_vars
    /\ UNCHANGED data_vars

(***************************************************************************)
(* The protocol registry.  custom_protocols is a dict, which keeps its     *)
(* keys in insertion order: the sequence of its values, each with its key  *)
(* in the field id.                                                        *)
(***************************************************************************)
HasProtocol(protocol_id) ==
    \E i \in 1..Len(custom_protocols) : custom_protocols[i].id = protocol_id

ProtocolIndex(protocol_id) ==
    CHOOSE i \in 1..Len(custom_protocols) : custom_protocols[i].id = protocol_id

\* custom_protocols.get(protocol_id): <<protocol>>, or <<>> for None
GetProtocol(protocol_id) ==
    IF HasProtocol(protocol_id)
    THEN <<custom_protocols[ProtocolIndex(protocol_id)]>>
    ELSE <<>>

\* custom_protocols[protocol_id] = protocol
SetProtocol(protocol_id, protocol) ==
    IF HasProtocol(protocol_id)
    THEN [custom_protocols EXCEPT ![ProtocolIndex(protocol_id)] = protocol]
    ELSE Append(custom_protocols, protocol)

\* str.lower() on the characters of the model
LowerChar(c) ==
    CASE c = "A" -> "a"
      [] c = "B" -> "b"
      [] c = "C" -> "c"
      [] OTHER -> c

\* protocol_name.replace(' ', '_').lower()
NormalizeName(name) ==
    [i \in 1..Len(name) |-> LowerChar(IF name[i] = " " THEN "_" ELSE name[i])]

\* Line 250: f"{user_id}_{normalized name}"
ProtocolId(user_id, protocol_name) == user_id \o <<"_">> \o NormalizeName(protocol_name)

\* POST /create-protocol, lines 240-263
CreateBody(t) ==
    /\ pc[t] = "body" /\ req[t].op = "create-protocol"
    /\ IF req[t].name = EmptyText
       THEN /\ Respond(t, 400, ErrorBody("Protocol name is required"))
            /\ UNCHANGED <<custom_protocols, loc>>
       ELSE LET protocol_id == ProtocolId(loc[t].user_id, req[t].name)
                protocol == [id |-> protocol_id,
                             name |-> req[t].name,
                             encryption_algorithm |-> req[t].encryption_algorithm,
                             key_length |-> req[t].key_length,
                             authentication_method |-> req[t].authentication_method,
                             bypass_security |-> req[t].bypass_security,
                             user_id |-> loc[t].user_id,
                             created_at |-> now]
            IN /\ custom_protocols' = SetProtocol(protocol_id, protocol)
               /\ loc' = [loc EXCEPT ![t] = [user_id |-> loc[t].user_id,
                                             protocol_id |-> protocol_id,
                                             protocol |-> protocol]]
               /\ pc' = [pc EXCEPT ![t] = "create_log"]
               /\ UNCHANGED resp
    /\ UNCHANGED <<users_db, security_logs, now, issued, req>>
    /\ UNCHANGED gateway_vars
    /\ UNCHANGED data_vars

\* Lines 265-275
CreateLog(t) ==
    /\ pc[t] = "create_log"
    /\ log_security_event("custom_protocol_usage", loc[t].user_id,
                          [protocol_id |-> loc[t].protocol_id, action |-> "create",
                           bypass_security |-> req[t].bypass_security])
    /\ Respond(t, 200, [protocol_id |-> loc[t].protocol_id,
                        protocol |-> loc[t].protocol,
                        status |-> "success"])
    /\ UNCHANGED <<users_db, custom_protocols, now, issued, req, loc>>
    /\ UNCHANGED gateway_vars
    /\ UNCHANGED data_vars

\* Line 299: the "secured" text, by its parts
SecuredData(target_data, protocol) ==
    <<"Secured", target_data, protocol.encryption_algorithm, protocol.key_length,
      protocol.authentication_method>>

\* POST /apply-protocol/<protocol_id>, lines 285-299
ApplyBody(t) ==
    /\ pc[t] = "body" /\ req[t].op = "apply-protocol"
    /\ LET protocol == GetProtocol(req[t].protocol_id)
       IN IF protocol = <<>>
          THEN /\ Respond(t, 404, ErrorBody("Protocol not found"))
               /\ UNCHANGED loc
          ELSE IF protocol[1].user_id # loc[t].user_id
          THEN /\ Respond(t, 403, ErrorBody("Access denied"))
               /\ UNCHANGED loc
          ELSE IF req[t].data = EmptyText
          THEN /\ Respond(t, 400, ErrorBody("Data to secure is required"))
               /\ UNCHANGED loc
          ELSE /\ loc' = [loc EXCEPT ![t] = [user_id |-> loc[t].user_id,
                                             protocol |-> protocol[1],
                                             secured_data |-> SecuredData(req[t].data, protocol[1])]]
               /\ pc' = [pc EXCEPT ![t] = "apply_log"]
               /\ UNCHANGED resp
    /\ UNCHANGED <<users_db, security_logs, custom_protocols, now, issued, req>>
    /\ UNCHANGED gateway_vars
    /\ UNCHANGED data_vars

\* Lines 301-312
ApplyLog(t) ==
    /\ pc[t] = "apply_log"
    /\ log_security_event("custom_protocol_usage", loc[t].user_id,
                          [protocol_id |-> req[t].protocol_id, action |-> "apply",
                           data_length |-> Len(req[t].data)])
    /\ Respond(t, 200, [protocol_id |-> req[t].protocol_id,
                        secured_data |-> loc[t].secured_data,
                        protocol_details |-> loc[t].protocol,
                        status |-> "success"])
    /\ UNCHANGED <<users_db, custom_protocols, now, issued, req, loc>>
    /\ UNCHANGED gateway_vars
    /\ UNCHANGED data_vars

\* A selection that leaves out nothing.
UserLogsUnfiltered(user_id) == security_logs

\* Line 323: [log for log in security_logs if log.get('user_id') == user_id]
UserLogs(user_id) == SelectSeq(security_logs, LAMBDA e : e.user_id = user_id)

\* GET /security-logs, lines 321-330
LogsBody(t) ==
    /\ pc[t] = "body" /\ req[t].op = "security-logs"
    /\ LET user_logs == UserLogs(loc[t].user_id)
       IN Respond(t, 200, [user_id |-> loc[t].user_id,
                           security_logs |-> user_logs,
                           log_count |-> Len(user_logs),
                           status |-> "success"])
    /\ UNCHANGED <<users_db, security_logs, custom_protocols, now, issued, req, loc>>
    /\ UNCHANGED gateway_vars
    /\ UNCHANGED data_vars

\* GET /protocols, lines 339-347
ListBody(t) ==
    /\ pc[t] = "body" /\ req[t].op = "protocols"
    /\ LET user_protocols == SelectSeq(custom_protocols, LAMBDA p : p.user_id = loc[t].user_id)
       IN Respond(t, 200, [user_id |-> loc[t].user_id,
                           protocols |-> user_protocols,
                           protocol_count |-> Len(user_protocols),
                           status |-> "success"])
    /\ UNCHANGED <<users_db, security_logs, custom_protocols, now, issued, req, loc>>
    /\ UNCHANGED gateway_vars
    /\ UNCHANGED data_vars

(***************************************************************************)
(* The API gateway (src/services/api-gateway/app.py).  A gateway request   *)
(* names its route and the client address, and carries the Authorization   *)
(* header and the JSON body of the client.  rate_limit is cut into steps   *)
(* at its accesses to the shared dict rate_limits.                         *)
(***************************************************************************)
WINDOW_SECONDS == 60

\* max_requests of the routes, scaled down: the routes with the smaller limits
\* (video/generate, protocol/create) and those with the larger ones.
LimitSmall == 1
LimitLarge == 2

OtherRoutes == {"/api/v1/text/generate", "/api/v1/video/generate"}
DedicatedRoutes == {"/api/v1/encrypt", "/api/v1/decrypt", "/api/v1/protocol/create"}
ProxyRoute == "/api/<service>/<path:endpoint>"

\* The max_requests argument of the route's rate_limit decorator
max_requests(route) ==
    IF route \in {"/api/v1/video/generate", "/api/v1/protocol/create"}
    THEN LimitSmall
    ELSE LimitLarge

\* Lines 15-23
SERVICES == {"text-generation", "image-generation", "video-generation", "ai-models",
             "no-code-development", "security", "data-processing"}

\* The endpoint of the security service a dedicated route posts to
\* (lines 240, 252, 264).
SecurityEndpoint(route) ==
    CASE route = "/api/v1/encrypt" -> "encrypt"
      [] route = "/api/v1/decrypt" -> "decrypt"
      [] route = "/api/v1/protocol/create" -> "create-protocol"

\* The request the security service receives.  The proxy route forwards the
\* client's headers, Host excepted (line 89); the dedicated routes post the JSON
\* body alone, with no header of the client (requests.post(url, json=data)).
UpstreamRequest(r) ==
    IF r.route = ProxyRoute
    THEN [op |-> r.endpoint, header |-> r.header] @@ r.json
    ELSE [op |-> SecurityEndpoint(r.route), header |-> NoHeader] @@ r.json

GatewayStart(g, r) ==
    /\ gpc[g] = "idle"
    /\ greq' = [greq EXCEPT ![g] = r]
    /\ gpc' = [gpc EXCEPT ![g] = "rl_test"]
    /\ UNCHANGED <<rate_limits, gtime, gloc, admitted>>
    /\ UNCHANGED <<users_db, security_logs, custom_protocols, now, issued, pc, req, loc, resp>>
    /\ UNCHANGED data_vars

\* Line 35: if client_ip not in rate_limits
RateLimitTest(g) ==
    /\ gpc[g] = "rl_test"
    /\ gpc' = [gpc EXCEPT ![g] =
                 IF greq[g].client_ip \notin DOMAIN rate_limits THEN "rl_set" ELSE "rl_clean"]
    /\ UNCHANGED <<rate_limits, gtime, greq, gloc, admitted>>
    /\ UNCHANGED <<users_db, security_logs, custom_protocols, now, issued, pc, req, loc, resp>>
    /\ UNCHANGED data_vars

\* Line 36: rate_limits[client_ip] = []
RateLimitSet(g) ==
    /\ gpc[g] = "rl_set"
    /\ rate_limits' = [k \in DOMAIN rate_limits \cup {greq[g].client_ip} |->
                          IF k = greq[g].client_ip THEN <<>> ELSE rate_limits[k]]
    /\ gpc' = [gpc EXCEPT ![g] = "rl_clean"]
    /\ UNCHANGED <<gtime, greq, gloc, admitted>>
    /\ UNCHANGED <<users_db, security_logs, custom_protocols, now, issued, pc, req, loc, resp>>
    /\ UNCHANGED data_vars

\* Lines 39-40, the right-hand side: now = time.time() and the list of the times
\* still in the window
RateLimitClean(g) ==
    /\ gpc[g] = "rl_clean"
    /\ gloc' = [gloc EXCEPT ![g] =
                  [now |-> gtime,
                   cleaned |-> SelectSeq(rate_limits[greq[g].client_ip],
                                         LAMBDA req_time : gtime - req_time < WINDOW_SECONDS)]]
    /\ gpc' = [gpc EXCEPT ![g] = "rl_store"]
    /\ UNCHANGED <<rate_limits, gtime, greq, admitted>>
    /\ UNCHANGED <<users_db, security_logs, custom_protocols, now, issued, pc, req, loc, resp>>
    /\ UNCHANGED data_vars

\* Line 40, the assignment: rate_limits[client_ip] = [...]
RateLimitStore(g) ==
    /\ gpc[g] = "rl_store"
    /\ rate_limits' = [rate_limits EXCEPT ![greq[g].client_ip] = gloc[g].cleaned]
    /\ gpc' = [gpc EXCEPT ![g] = "rl_check"]
    /\ UNCHANGED <<gtime, greq, gloc, admitted>>
    /\ UNCHANGED <<users_db, security_logs, custom_protocols, now, issued, pc, req, loc, resp>>
    /\ UNCHANGED data_vars

\* Line 43: len(rate_limits[client_ip]) >= max_requests
LimitReached(g) == Len(rate_limits[greq[g].client_ip]) >= max_requests(greq[g].route)

\* Lines 43-44
RateLimitCheck(g) ==
    /\ gpc[g] = "rl_check"
    /\ IF LimitReached(g)
       THEN /\ gpc' = [gpc EXCEPT ![g] = "respond"]
            /\ gloc' = [gloc EXCEPT ![g] =
                          [resp |-> [status |-> 429, body |-> ErrorBody("Rate limit exceeded")]]]
       ELSE /\ gpc' = [gpc EXCEPT ![g] = "rl_append"]
            /\ UNCHANGED gloc
    /\ UNCHANGED <<rate_limits, gtime, greq, admitted>>
    /\ UNCHANGED <<users_db, security_logs, custom_protocols, now, issued, pc, req, loc, resp>>
    /\ UNCHANGED data_vars

\* Line 47: rate_limits[client_ip].append(now)
RateLimitAppend(g) ==
    /\ gpc[g] = "rl_append"
    /\ rate_limits' = [rate_limits EXCEPT ![greq[g].client_ip] = Append(@, gloc[g].now)]
    /\ gpc' = [gpc EXCEPT ![g] = "handler"]
    /\ UNCHANGED <<gtime, greq, gloc, admitted>>
    /\ UNCHANGED <<users_db, security_logs, custom_protocols, now, issued, pc, req, loc, resp>>
    /\ UNCHANGED data_vars

\* Line 49: f(*args, **kwargs) is invoked for the request
Invocation(g) == [client_ip |-> greq[g].client_ip, route |-> greq[g].route, time |-> gloc[g].now]

\* A handler whose upstream is not the security service (lines 116-231): it posts
\* the JSON body and relays the answer, or answers 500 when the call fails.
GatewayCallOther(g, status) ==
    /\ gpc[g] = "handler"
    /\ greq[g].route \in OtherRoutes
    /\ admitted' = Append(admitted, Invocation(g))
    /\ gloc' = [gloc EXCEPT ![g] = [resp |-> [status |-> status, body |-> "upstream"]]]
    /\ gpc' = [gpc EXCEPT ![g] = "respond"]
    /\ UNCHANGED <<rate_limits, gtime, greq>>
    /\ UNCHANGED <<users_db, security_logs, custom_protocols, now, issued, pc, req, loc, resp>>
    /\ UNCHANGED data_vars

\* proxy_request, lines 82-83: the service is not one of SERVICES
GatewayProxyUnknown(g) ==
    /\ gpc[g] = "handler"
    /\ greq[g].route = ProxyRoute
    /\ greq[g].service \notin SERVICES
    /\ admitted' = Append(admitted, Invocation(g))
    /\ gloc' = [gloc EXCEPT ![g] =
                  [resp |-> [status |-> 404, body |-> ErrorBody("Service not found")]]]
    /\ gpc' = [gpc EXCEPT ![g] = "respond"]
    /\ UNCHANGED <<rate_limits, gtime, greq>>
    /\ UNCHANGED <<users_db, security_logs, custom_protocols, now, issued, pc, req, loc, resp>>
    /\ UNCHANGED data_vars

\* The handler posts to the security service (proxy_request, lines 85-95;
\* encrypt_data, decrypt_data, create_protocol, lines 239-264): thread t of the
\* service takes the request.
GatewayForward(g, t) ==
    /\ gpc[g] = "handler"
    /\ \/ greq[g].route \in DedicatedRoutes
       \/ greq[g].route = ProxyRoute /\ greq[g].service = "security"
    /\ ProtectedArrive(t, UpstreamRequest(greq[g]))
    /\ admitted' = Append(admitted, Invocation(g))
    /\ gloc' = [gloc EXCEPT ![g] = [upstream |-> t]]
    /\ gpc' = [gpc EXCEPT ![g] = "await"]
    /\ UNCHANGED <<rate_limits, gtime, greq>>
    /\ UNCHANGED data_vars

\* The gateway thread g waits for the answer of thread t of the service
Awaited(t) == \E g \in GThreads : gpc[g] = "await" /\ gloc[g].upstream = t

\* Lines 104, 241, 253, 265: jsonify(response.json()), response.status_code
GatewayRelay(g) ==
    /\ gpc[g] = "await"
    /\ pc[gloc[g].upstream] = "respond"
    /\ gloc' = [gloc EXCEPT ![g] = [resp |-> resp[gloc[g].upstream]]]
    /\ gpc' = [gpc EXCEPT ![g] = "respond"]
    /\ UNCHANGED <<rate_limits, gtime, greq, admitted>>
    /\ UNCHANGED <<users_db, security_logs, custom_protocols, now, issued, pc, req, loc, resp>>
    /\ UNCHANGED data_vars

\* The response leaves the gateway
GatewayReturn(g) ==
    /\ gpc[g] = "respond"
    /\ gpc' = [gpc EXCEPT ![g] = "idle"]
    /\ greq' = [greq EXCEPT ![g] = NoReq]
    /\ gloc' = [gloc EXCEPT ![g] = NoLoc]
    /\ UNCHANGED <<rate_limits, gtime, admitted>>
    /\ UNCHANGED <<users_db, security_logs, custom_protocols, now, issued, pc, req, loc, resp>>
    /\ UNCHANGED data_vars

\* The gateway's clock advances to a later instant.
GTick(i) ==
    /\ i > gtime
    /\ gtime' = i
    /\ UNCHANGED <<rate_limits, gpc, greq, gloc, admitted>>
    /\ UNCHANGED <<users_db, security_logs, custom_protocols, now, issued, pc, req, loc, resp>>
    /\ UNCHANGED data_vars

(***************************************************************************)
(* The data-processing service (src/services/data-processing/app.py).      *)
(* Request threads run the handlers; every accepted /stream/process starts *)
(* one more thread that runs process_stream.                               *)
(***************************************************************************)
other_vars == <<users_db, security_logs, custom_protocols, now, issued, pc, req, loc, resp,
                rate_limits, gtime, gpc, greq, gloc, admitted>>

\* Line 32: f"msg_{int(time.time() * 1000)}"
MessageId(ms) == <<"msg_", ms>>

\* Lines 290-307
apply_stream_processing(data, config) ==
    IF config.enrich_data
    THEN [original_data |-> data, processing_config |-> config, processed |-> TRUE,
          enriched_data |-> [source_ip |-> "127.0.0.1", user_agent |-> "Aether-X Ultimate"]]
    ELSE [original_data |-> data, processing_config |-> config, processed |-> TRUE]

\* ingest_data, lines 20-45.  The field serial numbers the messages in the order
\* they were put on the queue: it tells apart two messages with the same id.
Ingest(h, payload) ==
    /\ hpc[h] = "idle"
    /\ hreq' = [hreq EXCEPT ![h] = [op |-> "ingest", data |-> payload]]
    /\ hpc' = [hpc EXCEPT ![h] = "respond"]
    /\ IF payload = <<>>
       THEN /\ hresp' = [hresp EXCEPT ![h] =
                           [status |-> 400, body |-> ErrorBody("Data payload is required")]]
            /\ UNCHANGED <<data_queue, ingested>>
       ELSE /\ data_queue' = Append(data_queue,
                                 [id |-> MessageId(dclock), type |-> "generic",
                                  data |-> payload, source |-> "127.0.0.1",
                                  serial |-> ingested + 1])
            /\ ingested' = ingested + 1
            /\ hresp' = [hresp EXCEPT ![h] =
                           [status |-> 200,
                            body |-> [message_id |-> MessageId(dclock), status |-> "ingested",
                                      queue_size |-> Len(data_queue) + 1]]]
    /\ UNCHANGED <<processed_data, stream_processors, dclock, wpc, wloc>>
    /\ UNCHANGED other_vars

\* start_stream_processing, lines 54-59: the membership test
StartCheck(h, processor_id, config) ==
    /\ hpc[h] = "idle"
    /\ hreq' = [hreq EXCEPT ![h] =
                  [op |-> "start", processor_id |-> processor_id, config |-> config]]
    /\ IF processor_id \in DOMAIN stream_processors
       THEN /\ hpc' = [hpc EXCEPT ![h] = "respond"]
            /\ hresp' = [hresp EXCEPT ![h] =
                           [status |-> 409, body |-> ErrorBody("Processor already exists")]]
       ELSE /\ hpc' = [hpc EXCEPT ![h] = "spawn"]
            /\ UNCHANGED hresp
    /\ UNCHANGED <<data_queue, processed_data, stream_processors, dclock, ingested, wpc, wloc>>
    /\ UNCHANGED other_vars

Unborn == {w \in Workers : wpc[w] = "unborn"}

\* Lines 62-67: the processor thread is created and started
StartSpawn(h) ==
    /\ hpc[h] = "spawn"
    /\ Unborn # {}
    /\ LET w == CHOOSE u \in Unborn : \A v \in Unborn : u <= v
       IN /\ wpc' = [wpc EXCEPT ![w] = "loop"]
          /\ wloc' = [wloc EXCEPT ![w] = [processor_id |-> hreq[h].processor_id,
                                          config |-> hreq[h].config]]
          /\ hreq' = [hreq EXCEPT ![h] = hreq[h] @@ [thread |-> w]]
    /\ hpc' = [hpc EXCEPT ![h] = "store"]
    /\ UNCHANGED <<data_queue, processed_data, stream_processors, dclock, ingested, hresp>>
    /\ UNCHANGED other_vars

\* Lines 69-81: the processor's record is stored, then the answer is built
StartStore(h) ==
    /\ hpc[h] = "store"
    /\ stream_processors' =
          [p \in DOMAIN stream_processors \cup {hreq[h].processor_id} |->
              IF p = hreq[h].processor_id
              THEN [thread |-> hreq[h].thread, status |-> "running",
                    config |-> hreq[h].config, processed_count |-> 0]
              ELSE stream_processors[p]]
    /\ hpc' = [hpc EXCEPT ![h] = "respond"]
    /\ hresp' = [hresp EXCEPT ![h] =
                   [status |-> 200,
                    body |-> [processor_id |-> hreq[h].processor_id, status |-> "started",
                              config |-> hreq[h].config]]]
    /\ UNCHANGED <<data_queue, processed_data, dclock, ingested, hreq, wpc, wloc>>
    /\ UNCHANGED other_vars

\* stop_stream_processing, lines 89-98
Stop(h, processor_id) ==
    /\ hpc[h] = "idle"
    /\ hreq' = [hreq EXCEPT ![h] = [op |-> "stop", processor_id |-> processor_id]]
    /\ hpc' = [hpc EXCEPT ![h] = "respond"]
    /\ IF processor_id \notin DOMAIN stream_processors
       THEN /\ hresp' = [hresp EXCEPT ![h] =
                           [status |-> 404, body |-> ErrorBody("Processor not found")]]
            /\ UNCHANGED stream_processors
       ELSE /\ stream_processors' =
                  [stream_processors EXCEPT ![processor_id].status = "stopped"]
            /\ hresp' = [hresp EXCEPT ![h] =
                           [status |-> 200,
                            body |-> [processor_id |-> processor_id, status |-> "stopped"]]]
    /\ UNCHANGED <<data_queue, processed_data, dclock, ingested, wpc, wloc>>
    /\ UNCHANGED other_vars

\* The response leaves the service
DataReturn(h) ==
    /\ hpc[h] = "respond"
    /\ hpc' = [hpc EXCEPT ![h] = "idle"]
    /\ hreq' = [hreq EXCEPT ![h] = NoReq]
    /\ hresp' = [hresp EXCEPT ![h] = NoResp]
    /\ UNCHANGED <<data_queue, processed_data, stream_processors, dclock, ingested, wpc, wloc>>
    /\ UNCHANGED other_vars

\* The service's clock advances by a millisecond.
DataTick ==
    /\ dclock' = dclock + 1
    /\ UNCHANGED <<data_queue, processed_data, stream_processors, ingested,
                   hpc, hreq, hresp, wpc, wloc>>
    /\ UNCHANGED other_vars

\* process_stream, lines 183-187: the test of the processor's status
HasStopped(processor_id) ==
    /\ processor_id \in DOMAIN stream_processors
    /\ stream_processors[processor_id].status = "stopped"

LoopTest(w) ==
    /\ wpc[w] = "loop"
    /\ wpc' = [wpc EXCEPT ![w] =
                 IF HasStopped(wloc[w].processor_id) THEN "exited" ELSE "queue_test"]
    /\ UNCHANGED <<data_queue, processed_data, stream_processors, dclock, ingested,
                   hpc, hreq, hresp, wloc>>
    /\ UNCHANGED other_vars

\* Lines 190 and 209-210: data_queue.empty(), and the sleep when it is empty
QueueTest(w) ==
    /\ wpc[w] = "queue_test"
    /\ wpc' = [wpc EXCEPT ![w] = IF data_queue # <<>> THEN "get" ELSE "loop"]
    /\ UNCHANGED <<data_queue, processed_data, stream_processors, dclock, ingested,
                   hpc, hreq, hresp, wloc>>
    /\ UNCHANGED other_vars

\* A get that leaves the message on the queue
QueueGetPeek(w) ==
    /\ wpc[w] = "get"
    /\ data_queue # <<>>
    /\ wloc' = [wloc EXCEPT ![w] = [processor_id |-> wloc[w].processor_id,
                                    config |-> wloc[w].config,
                                    message |-> Head(data_queue)]]
    /\ wpc' = [wpc EXCEPT ![w] = "append"]
    /\ UNCHANGED <<data_queue, processed_data, stream_processors, dclock, ingested,
                   hpc, hreq, hresp>>
    /\ UNCHANGED other_vars

\* Line 191: data_queue.get(timeout=1) takes the oldest message
QueueGet(w) ==
    /\ wpc[w] = "get"
    /\ data_queue # <<>>
    /\ wloc' = [wloc EXCEPT ![w] = [processor_id |-> wloc[w].processor_id,
                                    config |-> wloc[w].config,
                                    message |-> Head(data_queue)]]
    /\ data_queue' = Tail(data_queue)
    /\ wpc' = [wpc EXCEPT ![w] = "append"]
    /\ UNCHANGED <<processed_data, stream_processors, dclock, ingested, hpc, hreq, hresp>>
    /\ UNCHANGED other_vars

\* Lines 191 and 212-213: the queue was emptied meanwhile, get raises queue.Empty
QueueGetTimeout(w) ==
    /\ wpc[w] = "get"
    /\ data_queue = <<>>
    /\ wpc' = [wpc EXCEPT ![w] = "loop"]
    /\ UNCHANGED <<data_queue, processed_data, stream_processors, dclock, ingested,
                   hpc, hreq, hresp, wloc>>
    /\ UNCHANGED other_vars

\* Lines 194-202: the processed message is built and appended
ProcessedMessage(w) ==
    [original_id |-> wloc[w].message.id,
     processor_id |-> wloc[w].processor_id,
     processed_data |-> apply_stream_processing(wloc[w].message.data, wloc[w].config),
     serial |-> wloc[w].message.serial]

StoreResult(w) ==
    /\ wpc[w] = "append"
    /\ processed_data' = Append(processed_data, ProcessedMessage(w))
    /\ wpc' = [wpc EXCEPT ![w] = "count_test"]
    /\ UNCHANGED <<data_queue, stream_processors, dclock, ingested, hpc, hreq, hresp, wloc>>
    /\ UNCHANGED other_vars

\* Line 205: if processor_id in stream_processors (line 208 when it is not)
CountTest(w) ==
    /\ wpc[w] = "count_test"
    /\ wpc' = [wpc EXCEPT ![w] =
                 IF wloc[w].processor_id \in DOMAIN stream_processors
                 THEN "count_read" ELSE "loop"]
    /\ UNCHANGED <<data_queue, processed_data, stream_processors, dclock, ingested,
                   hpc, hreq, hresp, wloc>>
    /\ UNCHANGED other_vars

\* Line 206, first half of "+= 1": the record is fetched and its counter read.
\* The record is identified by the thread it holds.
CountRead(w) ==
    /\ wpc[w] = "count_read"
    /\ wloc' = [wloc EXCEPT ![w] =
                  [processor_id |-> wloc[w].processor_id, config |-> wloc[w].config,
                   record |-> stream_processors[wloc[w].processor_id].thread,
                   count |-> stream_processors[wloc[w].processor_id].processed_count]]
    /\ wpc' = [wpc EXCEPT ![w] = "count_write"]
    /\ UNCHANGED <<data_queue, processed_data, stream_processors, dclock, ingested,
                   hpc, hreq, hresp>>
    /\ UNCHANGED other_vars

\* Line 206, second half, and line 208: the sum is stored in the record that was
\* fetched, which is no longer in the dict when line 69 replaced it meanwhile.
CountWrite(w) ==
    /\ wpc[w] = "count_write"
    /\ stream_processors' =
          IF stream_processors[wloc[w].processor_id].thread = wloc[w].record
          THEN [stream_processors EXCEPT
                   ![wloc[w].processor_id].processed_count = wloc[w].count + 1]
          ELSE stream_processors
    /\ wloc' = [wloc EXCEPT ![w] = [processor_id |-> wloc[w].processor_id,
                                    config |-> wloc[w].config]]
    /\ wpc' = [wpc EXCEPT ![w] = "loop"]
    /\ UNCHANGED <<data_queue, processed_data, dclock, ingested, hpc, hreq, hresp>>
    /\ UNCHANGED other_vars

(***************************************************************************)
(* Initial state: the module-level objects of lines 25-28.                 *)
(***************************************************************************)
Init ==
    /\ users_db = <<>>
    /\ security_logs = <<>>
    /\ custom_protocols = <<>>
    /\ now = 0
    /\ issued = {}
    /\ pc = [t \in Threads |-> "idle"]
    /\ req = [t \in Threads |-> NoReq]
    /\ loc = [t \in Threads |-> NoLoc]
    /\ resp = [t \in Threads |-> NoResp]
    /\ rate_limits = <<>>
    /\ gtime = 0
    /\ gpc = [g \in GThreads |-> "idle"]
    /\ greq = [g \in GThreads |-> NoReq]
    /\ gloc = [g \in GThreads |-> NoLoc]
    /\ admitted = <<>>
    /\ data_queue = <<>>
    /\ processed_data = <<>>
    /\ stream_processors = <<>>
    /\ dclock = 0
    /\ ingested = 0
    /\ hpc = [h \in DThreads |-> "idle"]
    /\ hreq = [h \in DThreads |-> NoReq]
    /\ hresp = [h \in DThreads |-> NoResp]
    /\ wpc = [w \in Workers |-> "unborn"]
    /\ wloc = [w \in Workers |-> NoLoc]

(***************************************************************************)
(* The request bodies of the model.                                        *)
(***************************************************************************)
\* While the model explores, the audit log holds at most n events.
LogRoom(n) == Len(security_logs) < n

\* Every combination of the non-empty values, and one request for each way a
\* required field can be empty.
RegisterRequests ==
    (Usernames \X Passwords \X Emails)
    \cup {<<EmptyText, "pw1", "a@x.com">>, <<UserA, "", "a@x.com">>, <<UserA, "pw1", "">>}

LoginRequests ==
    (Usernames \X Passwords) \cup {<<EmptyText, "pw1">>, <<UserA, "">>}

\* The requests that lack a required field
InvalidRegisterRequests ==
    {r \in RegisterRequests : r[1] = EmptyText \/ r[2] = "" \/ r[3] = ""}

InvalidLoginRequests == {r \in LoginRequests : r[1] = EmptyText \/ r[2] = ""}

\* Tokens a client can make without JWT_SECRET: one with claims of its choice and a
\* signature that does not validate, and text that is no JWT.
ForgedTokens ==
    {[user_id |-> UserA, exp |-> 2 * TOKEN_TTL + 2, iat |-> 0, sig |-> "forged"],
     MalformedToken}

Hello == <<"h", "i">>
ProtocolNames == {<<"c">>, <<"b", "_", "c">>, <<"B", " ", "c">>}

CreateRequest(header, name, bypass_security) ==
    [op |-> "create-protocol", header |-> header, name |-> name,
     encryption_algorithm |-> "AES", key_length |-> 256,
     authentication_method |-> "OAuth 2.0", bypass_security |-> bypass_security]

ApplyRequest(header, protocol_id, data) ==
    [op |-> "apply-protocol", header |-> header, protocol_id |-> protocol_id, data |-> data]

(***************************************************************************)
(* Spec: registration and login, handled concurrently.                     *)
(***************************************************************************)
Next ==
    \/ \E t \in Threads, r \in RegisterRequests, s \in Salts :
          RegisterStart(t, r[1], r[2], r[3], s)
    \/ \E t \in Threads : RegisterInsert(t)
    \/ \E t \in Threads : LogRoom(MaxLog) /\ RegisterLog(t)
    \/ \E t \in Threads, r \in LoginRequests : LogRoom(MaxLog) /\ LoginStart(t, r[1], r[2])
    \/ \E t \in Threads : LoginAuth(t)
    \/ \E t \in Threads : LogRoom(MaxLog) /\ LoginOutcome(t)
    \/ \E t \in Threads : Return(t)
    \/ \E i \in {0, 1} : Tick(i)

Spec == Init /\ [][Next]_vars

(***************************************************************************)
(* SpecGate: one user registers and logs in; protected requests arrive     *)
(* with every kind of Authorization header while the clock passes the      *)
(* expiry of the tokens.                                                   *)
(***************************************************************************)
GateHeaders ==
    {NoHeader}
    \cup {BearerHeader(k) : k \in issued \cup ForgedTokens}
    \cup {BareHeader(k) : k \in issued}
    \cup {OtherSchemeHeader(k) : k \in issued}

GateRequests ==
    UNION {
        {[op |-> "encrypt", header |-> h, data |-> Hello],
         [op |-> "decrypt", header |-> h, data |-> fernet_encrypt(Hello, "iv1")],
         CreateRequest(h, <<"c">>, FALSE),
         ApplyRequest(h, ProtocolId(UserA, <<"c">>), Hello),
         [op |-> "security-logs", header |-> h],
         [op |-> "protocols", header |-> h]} : h \in GateHeaders}

\* The scenario: the requests arrive one at a time; UserA registers, and logs in
\* at most once in each of the first hours; the audit log holds at most
\* MaxGateEvents events of protected requests.
LoginHours == {0, 1}

Quiet == \A t \in Threads : pc[t] = "idle"

FreshRegister == Quiet /\ UserA \notin DOMAIN users_db

FreshLogin ==
    /\ Quiet
    /\ UserA \in DOMAIN users_db
    /\ now \in LoginHours
    /\ \A k \in issued : k.iat # now

GateEvents ==
    SelectSeq(security_logs,
              LAMBDA e : e.event_type \in {"unauthorized_access", "encryption_operation",
                                           "custom_protocol_usage"})

GateRoom == Len(GateEvents) < MaxGateEvents

NextGate ==
    \/ \E t \in Threads : FreshRegister /\ RegisterStart(t, UserA, "pw1", "a@x.com", "salt1")
    \/ \E t \in Threads : RegisterInsert(t)
    \/ \E t \in Threads : RegisterLog(t)
    \/ \E t \in Threads : FreshLogin /\ LoginStart(t, UserA, "pw1")
    \/ \E t \in Threads : LoginAuth(t)
    \/ \E t \in Threads : LoginOutcome(t)
    \/ \E t \in Threads, r \in GateRequests : Quiet /\ GateRoom /\ ProtectedStart(t, r)
    \/ \E t \in Threads : GateRoom /\ EncryptBody(t, "iv1")
    \/ \E t \in Threads : GateRoom /\ DecryptBody(t)
    \/ \E t \in Threads : CreateBody(t)
    \/ \E t \in Threads : GateRoom /\ CreateLog(t)
    \/ \E t \in Threads : ApplyBody(t)
    \/ \E t \in Threads : GateRoom /\ ApplyLog(t)
    \/ \E t \in Threads : LogsBody(t)
    \/ \E t \in Threads : ListBody(t)
    \/ \E t \in Threads : Quiet /\ Health(t)
    \/ \E t \in Threads : Return(t)
    \/ \E i \in Instants : Tick(i)

SpecGate == Init /\ [][NextGate]_vars

(***************************************************************************)
(* SpecProto: two users register and log in, then create and apply         *)
(* protocols, with names and data that may be empty; requests of the other *)
(* routes that lack a required field arrive in between.                    *)
(***************************************************************************)
ProtoHeaders == {BearerHeader(k) : k \in issued}

ProtoIds == {ProtocolId(u, n) : u \in Usernames, n \in ProtocolNames}

\* The scenario: the users register and then log in, one request at a time and
\* each once (UserA first); the protocol requests follow, handled concurrently.
FirstRegister(u) ==
    /\ \A t \in Threads : pc[t] = "idle"
    /\ u \notin DOMAIN users_db
    /\ u = UserAB => UserA \in DOMAIN users_db

FirstLogin(u) ==
    /\ \A t \in Threads : pc[t] = "idle"
    /\ DOMAIN users_db = Usernames
    /\ \A k \in issued : k.user_id # u
    /\ u = UserAB => \E k \in issued : k.user_id = UserA

LoggedIn == \A u \in Usernames : \E k \in issued : k.user_id = u

NextProto ==
    \/ \E t \in Threads, u \in Usernames :
          FirstRegister(u) /\ RegisterStart(t, u, "pw1", "a@x.com", "salt1")
    \/ \E t \in Threads : RegisterInsert(t)
    \/ \E t \in Threads : RegisterLog(t)
    \/ \E t \in Threads, u \in Usernames : FirstLogin(u) /\ LoginStart(t, u, "pw1")
    \/ \E t \in Threads : LoginAuth(t)
    \/ \E t \in Threads : LoginOutcome(t)
    \/ \E t \in Threads, h \in ProtoHeaders, n \in ProtocolNames \cup {EmptyText}, b \in BOOLEAN :
          LoggedIn /\ LogRoom(MaxLogProto) /\ ProtectedStart(t, CreateRequest(h, n, b))
    \/ \E t \in Threads, h \in ProtoHeaders, id \in ProtoIds, d \in {Hello, EmptyText} :
          LoggedIn /\ LogRoom(MaxLogProto) /\ ProtectedStart(t, ApplyRequest(h, id, d))
    \/ \E t \in Threads : CreateBody(t)
    \/ \E t \in Threads : LogRoom(MaxLogProto) /\ CreateLog(t)
    \/ \E t \in Threads : ApplyBody(t)
    \/ \E t \in Threads : LogRoom(MaxLogProto) /\ ApplyLog(t)
    \/ \E t \in Threads, r \in InvalidRegisterRequests :
          LoggedIn /\ Quiet /\ RegisterStart(t, r[1], r[2], r[3], "salt1")
    \/ \E t \in Threads, r \in InvalidLoginRequests :
          LoggedIn /\ Quiet /\ LoginStart(t, r[1], r[2])
    \/ \E t \in Threads, h \in ProtoHeaders :
          LoggedIn /\ Quiet /\ LogRoom(MaxLogProto)
          /\ ProtectedStart(t, [op |-> "encrypt", header |-> h, data |-> EmptyText])
    \/ \E t \in Threads, h \in ProtoHeaders :
          LoggedIn /\ Quiet /\ LogRoom(MaxLogProto)
          /\ ProtectedStart(t, [op |-> "decrypt", header |-> h, data |-> NoData])
    \/ \E t \in Threads : EncryptBody(t, "iv1")
    \/ \E t \in Threads : DecryptBody(t)
    \/ \E t \in Threads : Return(t)

SpecProto == Init /\ [][NextProto]_vars

(***************************************************************************)
(* SpecEnvelope: UserA registers and logs in; encrypt and decrypt requests *)
(* follow, handled concurrently, with empty and non-empty plaintexts and   *)
(* with ciphertexts of the service and of others.                          *)
(***************************************************************************)
MaxLogEnvelope == 5

Plaintexts == {Hello, EmptyText}
IVs == {"iv1", "iv2"}

\* Ciphertexts the service's /encrypt returns for non-empty plaintexts
ServiceCiphertexts == {fernet_encrypt(p, iv) : p \in Plaintexts \ {EmptyText}, iv \in IVs}

\* Non-empty values that fernet.encrypt under ENCRYPTION_KEY did not make: a token
\* with a bit flipped, a token cut short, a token made under another key.
ForeignCiphertexts ==
    {[kind |-> "tampered", key |-> ENCRYPTION_KEY, iv |-> "iv1", data |-> Hello],
     [kind |-> "truncated", key |-> ENCRYPTION_KEY, iv |-> "iv1", data |-> Hello],
     [kind |-> "fernet", key |-> "OTHER_KEY", iv |-> "iv1", data |-> Hello]}

DecryptInputs == {NoData} \cup ServiceCiphertexts \cup ForeignCiphertexts

NextEnvelope ==
    \/ \E t \in Threads : FreshRegister /\ RegisterStart(t, UserA, "pw1", "a@x.com", "salt1")
    \/ \E t \in Threads : RegisterInsert(t)
    \/ \E t \in Threads : RegisterLog(t)
    \/ \E t \in Threads :
          Quiet /\ UserA \in DOMAIN users_db /\ issued = {} /\ LoginStart(t, UserA, "pw1")
    \/ \E t \in Threads : LoginAuth(t)
    \/ \E t \in Threads : LoginOutcome(t)
    \/ \E t \in Threads, h \in ProtoHeaders, p \in Plaintexts :
          LogRoom(MaxLogEnvelope) /\ ProtectedStart(t, [op |-> "encrypt", header |-> h, data |-> p])
    \/ \E t \in Threads, h \in ProtoHeaders, c \in DecryptInputs :
          LogRoom(MaxLogEnvelope) /\ ProtectedStart(t, [op |-> "decrypt", header |-> h, data |-> c])
    \/ \E t \in Threads, iv \in IVs : LogRoom(MaxLogEnvelope) /\ EncryptBody(t, iv)
    \/ \E t \in Threads : LogRoom(MaxLogEnvelope) /\ DecryptBody(t)
    \/ \E t \in Threads : Return(t)

SpecEnvelope == Init /\ [][NextEnvelope]_vars

(***************************************************************************)
(* SpecRead: two users register and log in; then, while the clock moves    *)
(* on, they create protocols and read their protocols and their audit      *)
(* events, and requests without a header are turned away.                  *)
(***************************************************************************)
MaxLogRead == 10

ReadNames == {<<"c">>, <<"b", "_", "c">>}
ReadHours == {1, 2}

ReadRequests ==
    {[op |-> "security-logs", header |-> NoHeader]}
    \cup UNION {{[op |-> "security-logs", header |-> h],
                 [op |-> "protocols", header |-> h]} : h \in ProtoHeaders}
    \cup {CreateRequest(h, n, FALSE) : h \in ProtoHeaders, n \in ReadNames}

NextRead ==
    \/ \E t \in Threads, u \in Usernames :
          FirstRegister(u) /\ RegisterStart(t, u, "pw1", "a@x.com", "salt1")
    \/ \E t \in Threads : RegisterInsert(t)
    \/ \E t \in Threads : RegisterLog(t)
    \/ \E t \in Threads, u \in Usernames : FirstLogin(u) /\ LoginStart(t, u, "pw1")
    \/ \E t \in Threads : LoginAuth(t)
    \/ \E t \in Threads : LoginOutcome(t)
    \/ \E t \in Threads, r \in ReadRequests :
          LoggedIn /\ Quiet /\ LogRoom(MaxLogRead) /\ ProtectedStart(t, r)
    \/ \E t \in Threads : CreateBody(t)
    \/ \E t \in Threads : CreateLog(t)
    \/ \E t \in Threads : LogsBody(t)
    \/ \E t \in Threads : ListBody(t)
    \/ \E t \in Threads : Return(t)
    \/ \E i \in ReadHours : LoggedIn /\ Quiet /\ Tick(i)

SpecRead == Init /\ [][NextRead]_vars

(***************************************************************************)
(* SpecRate: clients send requests to rate-limited routes of the gateway,  *)
(* handled concurrently, while the gateway's clock moves over a window.    *)
(***************************************************************************)
MaxAdmitted == 3

GatewayClients == {"10.0.0.1", "10.0.0.2"}
RateInstants == {WINDOW_SECONDS - 1, WINDOW_SECONDS}

OtherRequests ==
    {[route |-> r, client_ip |-> c, header |-> NoHeader, json |-> [prompt |-> "p"]] :
        r \in OtherRoutes, c \in GatewayClients}

InFlight == Cardinality({g \in GThreads : gpc[g] # "idle"})

NextRate ==
    \/ \E g \in GThreads, r \in OtherRequests :
          Len(admitted) + InFlight < MaxAdmitted /\ GatewayStart(g, r)
    \/ \E g \in GThreads : RateLimitTest(g)
    \/ \E g \in GThreads : RateLimitSet(g)
    \/ \E g \in GThreads : RateLimitClean(g)
    \/ \E g \in GThreads : RateLimitStore(g)
    \/ \E g \in GThreads : RateLimitCheck(g)
    \/ \E g \in GThreads : RateLimitAppend(g)
    \/ \E g \in GThreads, st \in {200, 500} : GatewayCallOther(g, st)
    \/ \E g \in GThreads : GatewayReturn(g)
    \/ \E i \in RateInstants : GTick(i)

SpecRate == Init /\ [][NextRate]_vars

(***************************************************************************)
(* SpecGateway: UserA registers and logs in at the security service; then  *)
(* a client sends requests for the security service to the gateway, one at *)
(* a time, through the proxy route and through the dedicated routes, with  *)
(* its token in the Authorization header or with no header.                *)
(***************************************************************************)
MaxLogGateway == 5

JsonOf(endpoint) ==
    CASE endpoint = "encrypt" -> [data |-> Hello]
      [] endpoint = "decrypt" -> [data |-> fernet_encrypt(Hello, "iv1")]
      [] endpoint = "create-protocol" ->
            [name |-> <<"c">>, encryption_algorithm |-> "AES", key_length |-> 256,
             authentication_method |-> "OAuth 2.0", bypass_security |-> FALSE]

SecurityRequests ==
    {[route |-> r, client_ip |-> "10.0.0.1", header |-> h, service |-> "security",
      endpoint |-> SecurityEndpoint(r), json |-> JsonOf(SecurityEndpoint(r))] :
        r \in DedicatedRoutes, h \in ProtoHeaders \cup {NoHeader}}
    \cup
    {[route |-> ProxyRoute, client_ip |-> "10.0.0.1", header |-> h, service |-> "security",
      endpoint |-> e, json |-> JsonOf(e)] :
        e \in {"encrypt", "decrypt", "create-protocol"}, h \in ProtoHeaders \cup {NoHeader}}
    \cup
    {[route |-> ProxyRoute, client_ip |-> "10.0.0.1", header |-> NoHeader,
      service |-> "billing", endpoint |-> "encrypt", json |-> JsonOf("encrypt")]}

GQuiet == \A g \in GThreads : gpc[g] = "idle"

NextGateway ==
    \/ \E t \in Threads : FreshRegister /\ RegisterStart(t, UserA, "pw1", "a@x.com", "salt1")
    \/ \E t \in Threads : RegisterInsert(t)
    \/ \E t \in Threads : RegisterLog(t)
    \/ \E t \in Threads :
          Quiet /\ UserA \in DOMAIN users_db /\ issued = {} /\ LoginStart(t, UserA, "pw1")
    \/ \E t \in Threads : LoginAuth(t)
    \/ \E t \in Threads : LoginOutcome(t)
    \/ \E g \in GThreads, r \in SecurityRequests :
          /\ issued # {} /\ Quiet /\ GQuiet
          /\ Len(admitted) < MaxAdmitted /\ LogRoom(MaxLogGateway)
          /\ GatewayStart(g, r)
    \/ \E g \in GThreads : RateLimitTest(g)
    \/ \E g \in GThreads : RateLimitSet(g)
    \/ \E g \in GThreads : RateLimitClean(g)
    \/ \E g \in GThreads : RateLimitStore(g)
    \/ \E g \in GThreads : RateLimitCheck(g)
    \/ \E g \in GThreads : RateLimitAppend(g)
    \/ \E g \in GThreads : GatewayProxyUnknown(g)
    \/ \E g \in GThreads, t \in Threads : GatewayForward(g, t)
    \/ \E t \in Threads : EncryptBody(t, "iv1")
    \/ \E t \in Threads : DecryptBody(t)
    \/ \E t \in Threads : CreateBody(t)
    \/ \E t \in Threads : CreateLog(t)
    \/ \E g \in GThreads : GatewayRelay(g)
    \/ \E t \in Threads : ~Awaited(t) /\ Return(t)
    \/ \E g \in GThreads : GatewayReturn(g)
    \/ \E i \in RateInstants : GQuiet /\ GTick(i)

SpecGateway == Init /\ [][NextGateway]_vars

(***************************************************************************)
(* SpecStream: clients ingest messages and start processors, all           *)
(* concurrently, while the started processor threads run process_stream.   *)
(***************************************************************************)
MaxMessages == 2
MaxClock == 1

ProcessorIds == {"p1", "p2"}
StartRequests ==
    {[processor_id |-> "p1", config |-> [enrich_data |-> FALSE]],
     [processor_id |-> "p2", config |-> [enrich_data |-> TRUE]]}
EmptyPayload == <<>>
Payloads == {<<"d">>, EmptyPayload}

Spawning == {h \in DThreads : hpc[h] = "spawn"}

\* A start request is sent while a processor thread is left for it.
CanStart(p) ==
    p \in DOMAIN stream_processors \/ Cardinality(Unborn) > Cardinality(Spawning)

WorkerStep(w) ==
    \/ LoopTest(w)
    \/ QueueTest(w)
    \/ QueueGet(w)
    \/ QueueGetTimeout(w)
    \/ StoreResult(w)
    \/ CountTest(w)
    \/ CountRead(w)
    \/ CountWrite(w)

HandlerStep(h) == StartSpawn(h) \/ StartStore(h) \/ DataReturn(h)

NextStream ==
    \/ \E h \in DThreads, payload \in Payloads :
          ingested < MaxMessages /\ Ingest(h, payload)
    \/ \E h \in DThreads, r \in StartRequests :
          CanStart(r.processor_id) /\ StartCheck(h, r.processor_id, r.config)
    \/ \E h \in DThreads : HandlerStep(h)
    \/ \E w \in Workers : WorkerStep(w)
    \/ dclock < MaxClock /\ ingested = 1 /\ DataTick

SpecStream == Init /\ [][NextStream]_vars

(***************************************************************************)
(* SpecStopFair: clients start and stop the processor "p1" and ingest one  *)
(* message, all concurrently, and every thread that can take a step        *)
(* eventually takes it.                                                    *)
(***************************************************************************)
MaxMessagesStop == 1

NextStop ==
    \/ \E h \in DThreads : ingested < MaxMessagesStop /\ Ingest(h, <<"d">>)
    \/ \E h \in DThreads :
          CanStart("p1") /\ StartCheck(h, "p1", [enrich_data |-> FALSE])
    \/ \E h \in DThreads : Stop(h, "p1")
    \/ \E h \in DThreads : HandlerStep(h)
    \/ \E w \in Workers : WorkerStep(w)

SpecStopFair ==
    /\ Init
    /\ [][NextStop]_vars
    /\ \A w \in Workers : WF_vars(WorkerStep(w))
    /\ \A h \in DThreads : WF_vars(HandlerStep(h))

(***************************************************************************)
(* Properties of registration and login.                                   *)
(***************************************************************************)
ValidRegister(t) ==
    /\ req[t].op = "register"
    /\ req[t].username # EmptyText
    /\ req[t].password # ""
    /\ req[t].email # ""

\* C1: of the register requests for one username that are handled concurrently
\* (all fields non-empty), exactly one returns success and every other one
\* returns 409: when one of two finished requests got 200, the other got 409.
C1_OneSuccessPerUsername ==
    \A t1, t2 \in Threads :
        (/\ t1 # t2
         /\ pc[t1] = "respond" /\ pc[t2] = "respond"
         /\ ValidRegister(t1) /\ ValidRegister(t2)
         /\ req[t1].username = req[t2].username
         /\ resp[t1].status = 200)
        => resp[t2].status = 409

\* C2: once a register request for username u has returned success, a register
\* request for u that arrives later returns 409, leaves users_db as it is (so
\* the record of u keeps its password hash, email and created_at) and appends
\* no audit event.
C2_SecondRegisterConflicts ==
    [][\A t1, t2 \in Threads :
          (/\ t1 # t2
           /\ pc[t1] = "respond" /\ req[t1].op = "register" /\ resp[t1].status = 200
           /\ pc[t2] = "idle" /\ pc'[t2] # "idle"
           /\ ValidRegister(t2)'
           /\ req'[t2].username = req[t1].username)
          => (/\ pc'[t2] = "respond"
              /\ resp'[t2].status = 409
              /\ users_db' = users_db
              /\ security_logs' = security_logs)]_vars

\* A register request stands answered 409 next to the successful one for the same
\* username, whose record is the one stored.
C2_Witness ==
    \E t1, t2 \in Threads :
        /\ t1 # t2
        /\ pc[t1] = "respond" /\ req[t1].op = "register" /\ resp[t1].status = 200
        /\ pc[t2] = "respond" /\ ValidRegister(t2) /\ resp[t2].status = 409
        /\ req[t2].username = req[t1].username
        /\ req[t2].password # req[t1].password
        /\ checkpw(req[t1].password, users_db[req[t1].username].password_hash)

\* The password a stored hash was made from.
PasswordOf(hashed) == hashed.digest[3]

ProtectedOps ==
    {"encrypt", "decrypt", "create-protocol", "apply-protocol", "protocols", "security-logs"}

OpenOps == {"register", "login", "health"}

\* The steps of a protected handler's body.
BodyPcs == {"body", "create_log", "apply_log"}

\* The header carries a token with a signature made under JWT_SECRET that has not
\* expired.
CarriesValidToken(header) ==
    /\ header # NoHeader
    /\ header.token.sig = "JWT_SECRET"
    /\ now < header.token.exp

Appended == SubSeq(security_logs', Len(security_logs) + 1, Len(security_logs'))

\* C3: the body of a protected handler runs only for a request whose header
\* carries a valid token, and then for that token's user; a request without one
\* is answered 401 before the body, custom_protocols stays as it is and the one
\* event appended is unauthorized_access.  custom_protocols changes, and
\* encryption_operation and custom_protocol_usage events are appended, only in
\* a handler body.  register, login and health carry no token and are never
\* turned away by the gate.
C3_GateBeforeHandlers ==
    [][/\ \A t \in Threads :
            /\ (pc'[t] \in BodyPcs /\ pc[t] \notin BodyPcs)
               => (/\ pc[t] = "idle"
                   /\ req'[t].op \in ProtectedOps
                   /\ CarriesValidToken(req'[t].header)
                   /\ loc'[t].user_id = req'[t].header.token.user_id)
            /\ (pc[t] = "idle" /\ pc'[t] # "idle" /\ req'[t].op \in ProtectedOps
                  /\ ~CarriesValidToken(req'[t].header))
               => (/\ pc'[t] = "respond"
                   /\ resp'[t].status = 401
                   /\ custom_protocols' = custom_protocols
                   /\ Len(Appended) = 1
                   /\ Appended[1].event_type = "unauthorized_access")
            /\ (pc[t] = "idle" /\ pc'[t] # "idle" /\ req'[t].op \in OpenOps)
               => (/\ "header" \notin DOMAIN req'[t]
                   /\ ~(pc'[t] = "respond" /\ resp'[t].status = 401))
       /\ (\/ custom_protocols' # custom_protocols
           \/ \E i \in 1..Len(Appended) :
                 Appended[i].event_type \in {"encryption_operation", "custom_protocol_usage"})
          => \E t \in Threads : pc[t] \in BodyPcs /\ pc'[t] # pc[t]]_vars

\* A protocol exists, made by a handler that passed the gate, and a request with
\* an issued token that has expired stands rejected.
C3_Witness ==
    /\ custom_protocols # <<>>
    /\ \E t \in Threads :
          /\ pc[t] = "respond" /\ req[t].op \in ProtectedOps /\ resp[t].status = 401
          /\ req[t].header # NoHeader
          /\ req[t].header.token \in issued

\* C8: a token issued at hour T verifies at every hour T' with
\* T <= T' < T + 24 and is rejected at every hour T' >= T + 24.
C8_TokenLifetime ==
    \A k \in issued :
        /\ k.iat <= now
        /\ now < k.iat + TOKEN_TTL => verify_jwt_token(k) = k.user_id
        /\ now >= k.iat + TOKEN_TTL => verify_jwt_token(k) = NoneId

\* At the hour a token expires, a request that carries it stands rejected while a
\* token issued an hour later still verifies.
C8_Witness ==
    \E k1, k2 \in issued :
        /\ now = k1.iat + TOKEN_TTL
        /\ k2.iat = k1.iat + 1 /\ verify_jwt_token(k2) = k2.user_id
        /\ \E t \in Threads :
              /\ pc[t] = "respond" /\ req[t].op \in ProtectedOps /\ resp[t].status = 401
              /\ req[t].header = BearerHeader(k1)

\* C9: whatever step is taken, an issued token that verifies keeps verifying
\* while the clock is before its exp, and an issued token that is rejected stays
\* rejected.
C9_OnlyExpiryInvalidates ==
    [][\A k \in issued :
          /\ (verify_jwt_token(k) = k.user_id /\ now' < k.exp)
             => verify_jwt_token(k)' = k.user_id
          /\ verify_jwt_token(k) = NoneId => verify_jwt_token(k)' = NoneId]_vars

\* After a further login of its user the older token still verifies, and later a
\* token has expired.
C9_Witness ==
    \E k1, k2 \in issued :
        /\ k1.iat < k2.iat /\ k1.user_id = k2.user_id
        /\ verify_jwt_token(k1) = NoneId
        /\ verify_jwt_token(k2) = k2.user_id

\* Why the gate turns a header away.
RejectionCause(header) ==
    IF header = NoHeader THEN "missing"
    ELSE IF jwt_decode(HeaderToken(header)).error = "ExpiredSignatureError" THEN "expired"
    ELSE "invalid"

\* C10: every request the gate rejects appends exactly one unauthorized_access
\* event with user_id None whose reason names the cause (missing header,
\* invalid token, expired token, three different reasons), and verification
\* tells an expired token from an invalid one.
C10_RejectionReasons ==
    [][\A t \in Threads :
          (/\ pc[t] = "idle" /\ pc'[t] = "respond"
           /\ req'[t].op \in ProtectedOps /\ resp'[t].status = 401)
          => (/\ Len(Appended) = 1
              /\ Appended[1].event_type = "unauthorized_access"
              /\ Appended[1].user_id = NoneId
              /\ RejectionCause(req'[t].header) = "missing"
                    => Appended[1].details.reason = "no_token"
              /\ RejectionCause(req'[t].header) = "invalid"
                    => Appended[1].details.reason = "invalid_token"
              /\ RejectionCause(req'[t].header) = "expired"
                    => Appended[1].details.reason \notin {"no_token", "invalid_token"})]_vars

(***************************************************************************)
(* Properties of the protocol registry (SpecProto).                        *)
(***************************************************************************)
\* The audit log shows that a create-protocol request of user_id for
\* protocol_id has succeeded.
CreatedBy(protocol_id, user_id) ==
    \E i \in 1..Len(security_logs) :
        /\ security_logs[i].event_type = "custom_protocol_usage"
        /\ security_logs[i].details.action = "create"
        /\ security_logs[i].details.protocol_id = protocol_id
        /\ security_logs[i].user_id = user_id

\* C4: a protocol created by user A is applied for A (non-empty data) and
\* refused with 403, without secured data, for every other user, whatever its
\* bypass_security; an id that is not in custom_protocols gives 404.
C4_OwnerOnlyApply ==
    [][\A t \in Threads :
          (pc[t] = "body" /\ req[t].op = "apply-protocol" /\ pc'[t] # "body")
          => (/\ (CreatedBy(req[t].protocol_id, loc[t].user_id) /\ req[t].data # EmptyText)
                 => (pc'[t] = "apply_log"
                     /\ loc'[t].secured_data
                          = SecuredData(req[t].data, GetProtocol(req[t].protocol_id)[1]))
              /\ (\E a \in Usernames :
                      a # loc[t].user_id /\ CreatedBy(req[t].protocol_id, a))
                 => (pc'[t] = "respond" /\ resp'[t].status = 403
                     /\ "secured_data" \notin DOMAIN resp'[t].body)
              /\ ~HasProtocol(req[t].protocol_id)
                 => (pc'[t] = "respond" /\ resp'[t].status = 404))]_vars

\* C5: a record of custom_protocols is never changed or removed: every step
\* leaves the records there are as they are, in their places.
C5_ProtocolsImmutable ==
    [][/\ Len(custom_protocols') >= Len(custom_protocols)
       /\ \A i \in 1..Len(custom_protocols) : custom_protocols'[i] = custom_protocols[i]]_vars

\* C6: create-protocol with a name whose normalized form is that of a protocol
\* the same owner has created is answered 409 and leaves custom_protocols as it
\* is.
C6_DuplicateCreateConflicts ==
    [][\A t \in Threads :
          (/\ pc[t] = "body" /\ req[t].op = "create-protocol" /\ pc'[t] # "body"
           /\ req[t].name # EmptyText
           /\ \E i \in 1..Len(custom_protocols) :
                 /\ custom_protocols[i].user_id = loc[t].user_id
                 /\ NormalizeName(custom_protocols[i].name) = NormalizeName(req[t].name))
          => (/\ pc'[t] = "respond"
              /\ resp'[t].status = 409
              /\ custom_protocols' = custom_protocols)]_vars

(***************************************************************************)
(* Failures and the audit log.                                             *)
(***************************************************************************)
\* C11: a request answered 401 or 403 has its failure in the audit log when the
\* response is produced: the step that produces the response, the last step of
\* the handler, appends a login_failure or unauthorized_access event.
C11_FailuresAreRecorded ==
    [][\A t \in Threads :
          (pc[t] # "respond" /\ pc'[t] = "respond" /\ resp'[t].status \in {401, 403})
          => (/\ Len(security_logs') = Len(security_logs) + 1
              /\ security_logs'[Len(security_logs')].event_type
                    \in {"login_failure", "unauthorized_access"})]_vars

(***************************************************************************)
(* Properties of the encryption envelope.                                  *)
(***************************************************************************)
\* The text fields of a response body.  encrypted_data is a ciphertext, opaque to
\* one who lacks the key, and decrypted_data is the caller's own plaintext.
TextFields(body) == DOMAIN body \ {"encrypted_data", "decrypted_data"}

\* C12: no response of encrypt or decrypt carries ENCRYPTION_KEY.
C12_KeyNeverReturned ==
    \A t \in Threads :
        (pc[t] = "respond" /\ req[t].op \in {"encrypt", "decrypt"})
        => \A f \in TextFields(resp[t].body) : resp[t].body[f] # ENCRYPTION_KEY

\* C13: encrypt of any plaintext, the empty one included, is answered 200 with a
\* ciphertext that decrypts to the plaintext, and decrypt of a ciphertext of p is
\* answered 200 with p.
C13_RoundTrip ==
    [][\A t \in Threads :
          /\ (pc[t] = "body" /\ req[t].op = "encrypt" /\ pc'[t] # "body")
             => (/\ resp'[t].status = 200
                 /\ fernet_decrypt(resp'[t].body.encrypted_data) = <<req[t].data>>)
          /\ (pc[t] = "body" /\ req[t].op = "decrypt" /\ pc'[t] # "body")
             => \A p \in Plaintexts, iv \in IVs :
                   req[t].data = fernet_encrypt(p, iv)
                   => (resp'[t].status = 200 /\ resp'[t].body.decrypted_data = p)]_vars

\* C14: decrypt of a non-empty value that fernet.encrypt under ENCRYPTION_KEY did
\* not make is answered with a failure that carries no plaintext, and changes
\* neither the audit log nor the stores.
C14_ForeignCiphertextFails ==
    [][\A t \in Threads :
          (/\ pc[t] = "body" /\ req[t].op = "decrypt" /\ pc'[t] # "body"
           /\ req[t].data \in ForeignCiphertexts)
          => (/\ pc'[t] = "respond"
              /\ resp'[t].status >= 400
              /\ "decrypted_data" \notin DOMAIN resp'[t].body
              /\ UNCHANGED <<security_logs, users_db, custom_protocols, issued>>)]_vars

\* A decrypt of a ciphertext made under another key stands answered with a failure.
C14_Witness ==
    \E t \in Threads :
        /\ pc[t] = "respond" /\ req[t].op = "decrypt"
        /\ req[t].data \in ForeignCiphertexts /\ req[t].data.key # ENCRYPTION_KEY
        /\ resp[t].status = 500

(***************************************************************************)
(* Properties of the audit log.                                            *)
(***************************************************************************)
\* C15: the audit log is append-only: every step leaves the events it holds in
\* place and unchanged, so the log of a state is a prefix of the log of every
\* later state.
C15_AuditLogAppendOnly ==
    [][/\ Len(security_logs') >= Len(security_logs)
       /\ \A i \in 1..Len(security_logs) : security_logs'[i] = security_logs[i]]_vars

\* The log holds events of registration, login and a protected request, and a
\* security-logs request has been served from it.
C15_Witness ==
    /\ Len(security_logs) >= 4
    /\ \E t \in Threads :
          pc[t] = "respond" /\ req[t].op = "security-logs" /\ resp[t].status = 200

(***************************************************************************)
(* The scheme of the Authorization header.                                 *)
(***************************************************************************)
\* C20: the gate lets a protected request through only when its header has the
\* form "Bearer <token>"; a header of any other form is answered 401.
C20_BearerSchemeRequired ==
    [][\A t \in Threads :
          (pc[t] = "idle" /\ pc'[t] # "idle" /\ req'[t].op \in ProtectedOps
           /\ req'[t].header.scheme # "Bearer ")
          => (pc'[t] = "respond" /\ resp'[t].status = 401)]_vars

(***************************************************************************)
(* Username enumeration.                                                   *)
(***************************************************************************)
NoSuchUser(t) == req[t].username \notin DOMAIN users_db

WrongPassword(t) ==
    /\ req[t].username \in DOMAIN users_db
    /\ PasswordOf(users_db[req[t].username].password_hash) # req[t].password

C18_WitnessUnregistered ==
    \E t \in Threads :
        /\ pc[t] = "respond" /\ req[t].op = "login" /\ resp[t].status = 401
        /\ NoSuchUser(t)

(***************************************************************************)
(* Properties of the read operations.                                      *)
(***************************************************************************)
\* The positions of the audit log that hold an event of user u, and the k-th of
\* them in the order of the log.
EventsOf(u) == {i \in 1..Len(security_logs) : security_logs[i].user_id = u}

NthEventOf(u, k) ==
    CHOOSE i \in EventsOf(u) : Cardinality({j \in EventsOf(u) : j <= i}) = k

\* C16: security-logs called by u is answered with the events of the audit log
\* whose user_id is u, all of them, in the order of the log, and none of another
\* user or of no user; it changes neither the log nor the stores.
C16_OwnEventsOnly ==
    [][\A t \in Threads :
          (pc[t] = "body" /\ req[t].op = "security-logs" /\ pc'[t] # "body")
          => LET u == loc[t].user_id
                 out == resp'[t].body.security_logs
             IN /\ resp'[t].status = 200
                /\ Len(out) = Cardinality(EventsOf(u))
                /\ \A k \in 1..Len(out) : out[k] = security_logs[NthEventOf(u, k)]
                /\ \A k \in 1..Len(out) : out[k].user_id = u
                /\ UNCHANGED <<security_logs, users_db, custom_protocols>>]_vars

\* A security-logs request stands answered with some events, while the log also
\* holds an event of another user and an event of no user.
C16_Witness ==
    \E t \in Threads :
        /\ pc[t] = "respond" /\ req[t].op = "security-logs" /\ resp[t].status = 200
        /\ Len(resp[t].body.security_logs) >= 3
        /\ \E i \in 1..Len(security_logs) : security_logs[i].user_id = NoneId
        /\ \E i \in 1..Len(security_logs) :
              security_logs[i].user_id \in Usernames \ {resp[t].body.user_id}

\* C17: protocols called by u is answered with the protocols whose owner is u,
\* each once, in the order of their creation times, and changes nothing.
C17_OwnProtocolsByCreation ==
    [][\A t \in Threads :
          (pc[t] = "body" /\ req[t].op = "protocols" /\ pc'[t] # "body")
          => LET u == loc[t].user_id
                 out == resp'[t].body.protocols
                 owned == {i \in 1..Len(custom_protocols) : custom_protocols[i].user_id = u}
             IN /\ resp'[t].status = 200
                /\ Len(out) = Cardinality(owned)
                /\ {out[k] : k \in 1..Len(out)} = {custom_protocols[i] : i \in owned}
                /\ \A j, k \in 1..Len(out) :
                      j < k => out[j].created_at <= out[k].created_at
                /\ UNCHANGED <<security_logs, users_db, custom_protocols>>]_vars

(***************************************************************************)
(* Validation and state.                                                   *)
(***************************************************************************)
\* C19: a request answered 400 has changed nothing: the step that answers 400
\* leaves users_db, custom_protocols and security_logs as they are, and so does
\* the step of the gate that lets a request through to its handler.
C19_ValidationBeforeMutation ==
    [][\A t \in Threads :
          /\ (pc[t] # "respond" /\ pc'[t] = "respond" /\ resp'[t].status = 400)
             => UNCHANGED <<users_db, custom_protocols, security_logs>>
          /\ (pc[t] = "idle" /\ pc'[t] = "body")
             => UNCHANGED <<users_db, custom_protocols, security_logs>>]_vars

\* An apply-protocol with empty data of the owner stands answered 400.
C19_Witness ==
    \E t \in Threads :
        /\ pc[t] = "respond" /\ req[t].op = "apply-protocol" /\ resp[t].status = 400
        /\ req[t].data = EmptyText

\* The requests of the other routes that lack a field stand answered 400.
C19_WitnessOtherRoutes ==
    \E t \in Threads :
        /\ pc[t] = "respond" /\ resp[t].status = 400
        /\ req[t].op \in {"register", "login", "encrypt", "decrypt", "create-protocol"}

(***************************************************************************)
(* Concurrent registration of distinct usernames.                          *)
(***************************************************************************)
\* Username u is registered by thread t alone: the log holds no registration of
\* u, and no other thread is handling a register request for u.
RegistersAlone(t) ==
    /\ \A i \in 1..Len(security_logs) :
          ~(security_logs[i].event_type = "login_success"
            /\ security_logs[i].details = [action |-> "registration"]
            /\ security_logs[i].user_id = req[t].username)
    /\ \A o \in Threads \ {t} :
          ~(req[o].op = "register" /\ req[o].username = req[t].username)

\* C22: register requests with distinct usernames, handled concurrently, all
\* succeed: a request with all fields for a username not yet stored goes on to the
\* insertion, and when it is the only one for its username it is answered 200
\* with users_db holding its own password hash and email, and all the records
\* stored before.
C22_DistinctUsernamesAllSucceed ==
    [][\A t \in Threads :
          /\ (/\ pc[t] = "idle" /\ pc'[t] # "idle" /\ req'[t].op = "register"
              /\ req'[t].username # EmptyText /\ req'[t].password # ""
              /\ req'[t].email # "" /\ req'[t].username \notin DOMAIN users_db)
             => pc'[t] = "reg_insert"
          /\ (pc[t] = "reg_insert" /\ pc'[t] = "reg_log")
             => \A u \in DOMAIN users_db \ {req[t].username} :
                   u \in DOMAIN users_db' /\ users_db'[u] = users_db[u]
          /\ (pc[t] = "reg_log" /\ pc'[t] = "respond" /\ RegistersAlone(t))
             => (/\ resp'[t].status = 200
                 /\ req[t].username \in DOMAIN users_db'
                 /\ PasswordOf(users_db'[req[t].username].password_hash) = req[t].password
                 /\ users_db'[req[t].username].email = req[t].email)]_vars

\* Two register requests with distinct usernames, handled at the same time, both
\* stand answered 200 and users_db holds the record of each.
C22_Witness ==
    \E t1, t2 \in Threads :
        /\ req[t1].op = "register" /\ req[t2].op = "register"
        /\ req[t1].username # req[t2].username
        /\ pc[t1] = "respond" /\ resp[t1].status = 200
        /\ pc[t2] = "respond" /\ resp[t2].status = 200
        /\ \A t \in {t1, t2} :
              /\ req[t].username \in DOMAIN users_db
              /\ PasswordOf(users_db[req[t].username].password_hash) = req[t].password

(***************************************************************************)
(* Owners and protocol ids.                                                *)
(***************************************************************************)
\* C23: protocol ids of different owners never coincide, so a create-protocol of
\* one user leaves every record of every other user as it is.
C23_OwnersIdsDisjoint ==
    [][\A t \in Threads :
          (pc[t] = "body" /\ req[t].op = "create-protocol" /\ pc'[t] # "body")
          => \A i \in 1..Len(custom_protocols) :
                custom_protocols[i].user_id # loc[t].user_id
                => (/\ ProtocolId(loc[t].user_id, req[t].name) # custom_protocols[i].id
                    /\ custom_protocols'[i] = custom_protocols[i])]_vars

(***************************************************************************)
(* The events of a login.                                                  *)
(***************************************************************************)
IsAttempt(e, u) == e.event_type = "login_attempt" /\ e.user_id = u

\* The step appends exactly the event e, of one of the types, for user u
AppendsOne(types, u) ==
    /\ Len(security_logs') = Len(security_logs) + 1
    /\ SubSeq(security_logs', 1, Len(security_logs)) = security_logs
    /\ security_logs'[Len(security_logs')].event_type \in types
    /\ security_logs'[Len(security_logs')].user_id = u

C25_SuccessFollowsAttempt ==
    \A i \in 1..Len(security_logs) :
        security_logs[i].event_type = "login_success"
        => \E j \in 1..(i - 1) : IsAttempt(security_logs[j], security_logs[i].user_id)

(***************************************************************************)
(* Users, tokens and is_active.                                            *)
(***************************************************************************)
\* C26: every token issued names a user of users_db, and so does the user_id a
\* protected handler runs with.
C26_TokensNameUsers ==
    /\ \A k \in issued : k.user_id \in DOMAIN users_db
    /\ \A t \in Threads : pc[t] \in BodyPcs => loc[t].user_id \in DOMAIN users_db

\* A token is issued and a protected handler runs for its user.
C26_Witness ==
    /\ issued # {}
    /\ \E t \in Threads : pc[t] \in BodyPcs /\ loc[t].user_id \in DOMAIN users_db

\* C27: every record of users_db has is_active true, and no login is answered
\* 403.
C27_AlwaysActive ==
    /\ \A u \in DOMAIN users_db : users_db[u].is_active
    /\ \A t \in Threads :
          (pc[t] = "respond" /\ req[t].op = "login") => resp[t].status # 403

\* A registered user's login stands answered.
C27_Witness ==
    \E t \in Threads :
        /\ pc[t] = "respond" /\ req[t].op = "login" /\ resp[t].status = 200
        /\ req[t].username \in DOMAIN users_db

\* The log holds the event of a successful registration of u
Registered(u) ==
    \E i \in 1..Len(security_logs) :
        /\ security_logs[i].event_type = "login_success"
        /\ security_logs[i].details = [action |-> "registration"]
        /\ security_logs[i].user_id = u

\* C28: once a register request for u has been answered with success, the record
\* of u, its password hash and email, stays as it is.
C28_RegisteredPasswordStable ==
    [][\A u \in DOMAIN users_db :
          Registered(u) => (u \in DOMAIN users_db' /\ users_db'[u] = users_db[u])]_vars

(***************************************************************************)
(* Properties of the gateway.                                              *)
(***************************************************************************)
\* C29: a request for the security service that reaches the gateway with a valid
\* "Bearer <token>" header, on the proxy route or on a dedicated route, reaches
\* the service with that header and runs there as the token's user.
C29_GatewayKeepsAuthorization ==
    [][\A g \in GThreads :
          (/\ gpc[g] = "handler" /\ gpc'[g] = "await"
           /\ greq[g].header.scheme = "Bearer " /\ CarriesValidToken(greq[g].header))
          => LET t == gloc'[g].upstream
             IN /\ req'[t].header = greq[g].header
                /\ pc'[t] = "body"
                /\ loc'[t].user_id = greq[g].header.token.user_id]_vars

\* The invocations of the route of invocation i for its client, from its time
\* up to WINDOW_SECONDS later
InWindowOf(i) ==
    {j \in 1..Len(admitted) :
        /\ admitted[j].client_ip = admitted[i].client_ip
        /\ admitted[j].route = admitted[i].route
        /\ admitted[j].time >= admitted[i].time
        /\ admitted[j].time - admitted[i].time < WINDOW_SECONDS}

\* C30: for every client and every rate-limited route, the handler invocations
\* whose request times lie within less than WINDOW_SECONDS of one another are at
\* most max_requests of the route.
C30_AdmittedWithinLimit ==
    \A i \in 1..Len(admitted) :
        Cardinality(InWindowOf(i)) <= max_requests(admitted[i].route)

\* A request answered 429 invokes no handler and adds no time to rate_limits.
C30_RejectedLeavesNoTrace ==
    [][\A g \in GThreads :
          (gpc[g] = "rl_check" /\ gpc'[g] = "respond")
          => (/\ gloc'[g].resp.status = 429
              /\ UNCHANGED <<rate_limits, admitted>>)]_vars

\* The requests of the client of g that passed the limit test of any route during
\* the WINDOW_SECONDS before the time g read: those whose handler was invoked and
\* those on their way to it.
AdmittedRecently(g) ==
    Cardinality({j \in 1..Len(admitted) :
                    /\ admitted[j].client_ip = greq[g].client_ip
                    /\ gloc[g].now - admitted[j].time < WINDOW_SECONDS})
    + Cardinality({h \in GThreads \ {g} :
                    /\ gpc[h] \in {"rl_append", "handler"}
                    /\ greq[h].client_ip = greq[g].client_ip
                    /\ gloc[g].now - gloc[h].now < WINDOW_SECONDS})

\* C31: the limit test admits a request to a route exactly when the client's
\* requests admitted to all rate-limited routes together during the last
\* WINDOW_SECONDS are fewer than max_requests of the route.
C31_QuotaSharedByRoutes ==
    [][\A g \in GThreads :
          (gpc[g] = "rl_check" /\ gpc'[g] # "rl_check")
          => ((gpc'[g] = "rl_append")
                <=> (AdmittedRecently(g) < max_requests(greq[g].route)))]_vars

(***************************************************************************)
(* Properties of the data-processing service.                              *)
(***************************************************************************)
\* Where the message with serial number n is: on the queue, in the hands of a
\* processor that took it and has not stored its result, or in processed_data
Queued(n) == {i \in 1..Len(data_queue) : data_queue[i].serial = n}
Holding(n) == {w \in Workers : wpc[w] = "append" /\ wloc[w].message.serial = n}
ResultsOf(n) == {i \in 1..Len(processed_data) : processed_data[i].serial = n}

Handling(w) == wpc[w] \in {"append", "count_test", "count_read", "count_write"}

EntriesOf(p) == {i \in 1..Len(processed_data) : processed_data[i].processor_id = p}

\* C34: when no processor is handling a message, the processed_count of every
\* registered processor is the number of entries of processed_data it produced.
C34_CountMatchesEntries ==
    (\A w \in Workers : ~Handling(w))
    => \A p \in DOMAIN stream_processors :
          stream_processors[p].processed_count = Cardinality(EntriesOf(p))

\* The processor threads started for p
ThreadsOf(p) == {w \in Workers : wpc[w] # "unborn" /\ wloc[w].processor_id = p}

\* C33: once stop is accepted for a registered processor, its threads eventually
\* leave the loop of process_stream, and the processor stays stopped for ever.
C33_StopIsFinal ==
    /\ HasStopped("p1") ~> (\A w \in ThreadsOf("p1") : wpc[w] = "exited")
    /\ [][HasStopped("p1") => HasStopped("p1")']_vars

====
